---- MODULE Spec2Model ----
(***************************************************************************)
(* Budget / dayparting admission control of the campaigns app.             *)
(*                                                                         *)
(* Money is held in the database as DecimalField(decimal_places=2): the    *)
(* stored values (budgets, daily_spend, monthly_spend) are modelled as     *)
(* integers counting cents.  An accrual amount is an arbitrary Decimal     *)
(* (simulate_spend produces 0.01 * uniform(0.5, 1.5)), so amounts are      *)
(* modelled as integers counting mills (tenths of a cent) and a save       *)
(* quantizes the sum back to cents.                                        *)
(*                                                                         *)
(* Dates are day numbers 0..MaxDate of a concrete calendar window around   *)
(* a month boundary: date 0 is the 31st of a month (a Monday), date 1 is   *)
(* the 1st of the next month, date 2 the 2nd, and so on.                   *)
(***************************************************************************)
EXTENDS Integers, Sequences, FiniteSets, TLC

\* ---------------------------------------------------------------- bounds
MaxDate == 1
MaxTime == 1
MaxOverspend == 0

\* ------------------------------------------------------ program constants
DaysInWeek == 7

\* Primary keys a Campaign row can have
CampaignIds == {1, 2}
Dates == 0..MaxDate
Times == 0..MaxTime

\* Campaign.Status
ACTIVE == "ACTIVE"
INACTIVE == "INACTIVE"
PAUSED == "PAUSED"
Status == {ACTIVE, INACTIVE, PAUSED}

\* Campaign.PauseReason
DAILY_BUDGET_EXCEEDED == "DAILY_BUDGET_EXCEEDED"
MONTHLY_BUDGET_EXCEEDED == "MONTHLY_BUDGET_EXCEEDED"
OUTSIDE_DAYPARTING_HOURS == "OUTSIDE_DAYPARTING_HOURS"
MANUAL_PAUSE == "MANUAL_PAUSE"
PauseReason == {DAILY_BUDGET_EXCEEDED, MONTHLY_BUDGET_EXCEEDED,
                OUTSIDE_DAYPARTING_HOURS, MANUAL_PAUSE}

\* pause_reason = None (the column is NULL)
None == "None"

\* No Spend row for a (campaign, date) pair
NoRow == [exists |-> FALSE]

\* A Spend row; both fields in cents
SpendRow(d, m) == [exists |-> TRUE, daily_spend |-> d, monthly_spend |-> m]

\* Amounts (in mills) simulate_spend can draw: 0.01 * uniform(0.5, 1.5).
\* 5 and 15 are the two end points (exact ties when quantized to cents),
\* 10 stands for the open interval between them.
SimAmounts == {5, 10, 15}

\* Amounts (in mills) callers of track_spend pass
TrackAmounts == {5, 10, 20}

\* Rounding of a tie when a Decimal is stored with two places: the ORM's
\* format_number quantizes half-even, a numeric(10,2) column rounds half-up.
\* Amounts no check of the code keeps from track_spend: zero and minus a cent
NonPositiveAmounts == {-10, 0}

RoundingModes == {"half_even", "half_up"}

VARIABLES
    campaigns,       \* ids of the Campaign rows in the database
    status,          \* Campaign.status, per campaign
    pause_reason,    \* Campaign.pause_reason, per campaign
    daily_budget,    \* Campaign.daily_budget (cents), per campaign
    monthly_budget,  \* Campaign.monthly_budget (cents), per campaign
    spends,          \* Spend table: spends[c][d] is the row of (campaign, date)
    spend_rows,      \* Spend table: how many rows it holds per (campaign, date)
    schedules,       \* DaypartingSchedule table: a set of rows
    today,           \* timezone.now().date()
    time,            \* timezone.now().time()
    sweep,           \* the periodic_budget_check call in progress, if any
    workers,         \* the track_spend transactions in progress
    hist             \* what the operations in progress have met so far

vars == <<campaigns, status, pause_reason, daily_budget, monthly_budget,
          spends, spend_rows, schedules, today, time, sweep, workers, hist>>

\* ------------------------------------------------------------- calendar
DayOfMonth(d) == IF d = 0 THEN 31 ELSE d

Weekday(d) == d % DaysInWeek

\* --------------------------------------------------------------- storage
\* The part of the database the operations mutate
DB == [status |-> status, pause_reason |-> pause_reason, spends |-> spends]

\* Value stored for a Decimal of v mills in a two-place column
Quantize(v, mode) ==
    LET q == v \div 10
        r == v % 10
    IN  IF r < 5 THEN q
        ELSE IF r > 5 THEN q + 1
        ELSE IF mode = "half_even" THEN (IF q % 2 = 0 THEN q ELSE q + 1)
        ELSE (IF v >= 0 THEN q + 1 ELSE q)

\* ---------------------------------------------------------------- models
\* Variant: the most recent row up to today stands in for today's row
get_current_spend_LatestRow(db, c) ==
    LET ds == {d \in Dates : d <= today /\ db.spends[c][d].exists}
    IN  IF ds = {} THEN [exists |-> FALSE]
        ELSE db.spends[c][CHOOSE d \in ds : \A e \in ds : e <= d]

get_current_spend(db, c) == db.spends[c][today]

\* Variant: a spend equal to the budget still counts as available
is_budget_available_Inclusive(db, c) ==
    LET spend == get_current_spend(db, c)
    IN  IF ~spend.exists THEN TRUE
        ELSE /\ spend.daily_spend <= daily_budget[c]
             /\ spend.monthly_spend <= monthly_budget[c]

is_budget_available(db, c) ==
    LET spend == get_current_spend(db, c)
    IN  IF ~spend.exists THEN TRUE
        ELSE /\ spend.daily_spend < daily_budget[c]
             /\ spend.monthly_spend < monthly_budget[c]

\* Variant: the status is set but the reason is not cleared
activate_KeepsReason(db, c) ==
    [db EXCEPT !.status[c] = ACTIVE]

activate(db, c) ==
    [db EXCEPT !.status[c] = ACTIVE, !.pause_reason[c] = None]

pause(db, c, reason) ==
    [db EXCEPT !.status[c] = PAUSED, !.pause_reason[c] = reason]

\* Variant: the end of the window is not part of it
is_within_dayparting_hours_ExclusiveEnd(c) ==
    LET matching == {s \in schedules : /\ s.campaign = c
                                       /\ s.day_of_week = Weekday(today)
                                       /\ s.is_active}
    IN  IF matching = {} THEN TRUE
        ELSE \E s \in matching : s.start_time <= time /\ time < s.end_time

is_within_dayparting_hours(c) ==
    LET matching == {s \in schedules : /\ s.campaign = c
                                       /\ s.day_of_week = Weekday(today)
                                       /\ s.is_active}
    IN  IF matching = {} THEN TRUE
        ELSE \E s \in matching : s.start_time <= time /\ time <= s.end_time

add_spend(row, amount, mode) ==
    SpendRow(Quantize(row.daily_spend * 10 + amount, mode),
             Quantize(row.monthly_spend * 10 + amount, mode))

\* -------------------------------------------------------------- services
\* Variant: the monthly budget is tested before the daily budget
check_budget_limits_MonthlyFirst(db, c) ==
    LET spend == get_current_spend(db, c)
    IN  IF ~spend.exists THEN db
        ELSE IF spend.monthly_spend >= monthly_budget[c]
        THEN (IF db.status[c] = ACTIVE
              THEN pause(db, c, MONTHLY_BUDGET_EXCEEDED) ELSE db)
        ELSE IF spend.daily_spend >= daily_budget[c]
        THEN (IF db.status[c] = ACTIVE
              THEN pause(db, c, DAILY_BUDGET_EXCEEDED) ELSE db)
        ELSE IF /\ db.status[c] = PAUSED
                /\ db.pause_reason[c] \in {DAILY_BUDGET_EXCEEDED,
                                            MONTHLY_BUDGET_EXCEEDED}
        THEN (IF is_budget_available(db, c) THEN activate(db, c) ELSE db)
        ELSE db

\* Variant: the monthly budget is exceeded only strictly above it
check_budget_limits_MonthlyStrict(db, c) ==
    LET spend == get_current_spend(db, c)
    IN  IF ~spend.exists THEN db
        ELSE IF spend.daily_spend >= daily_budget[c]
        THEN (IF db.status[c] = ACTIVE
              THEN pause(db, c, DAILY_BUDGET_EXCEEDED) ELSE db)
        ELSE IF spend.monthly_spend > monthly_budget[c]
        THEN (IF db.status[c] = ACTIVE
              THEN pause(db, c, MONTHLY_BUDGET_EXCEEDED) ELSE db)
        ELSE IF /\ db.status[c] = PAUSED
                /\ db.pause_reason[c] \in {DAILY_BUDGET_EXCEEDED,
                                            MONTHLY_BUDGET_EXCEEDED}
        THEN (IF is_budget_available(db, c) THEN activate(db, c) ELSE db)
        ELSE db

\* Variant: only a daily-budget pause is re-admitted
check_budget_limits_ReadmitDailyOnly(db, c) ==
    LET spend == get_current_spend(db, c)
    IN  IF ~spend.exists THEN db
        ELSE IF spend.daily_spend >= daily_budget[c]
        THEN (IF db.status[c] = ACTIVE
              THEN pause(db, c, DAILY_BUDGET_EXCEEDED) ELSE db)
        ELSE IF spend.monthly_spend >= monthly_budget[c]
        THEN (IF db.status[c] = ACTIVE
              THEN pause(db, c, MONTHLY_BUDGET_EXCEEDED) ELSE db)
        ELSE IF /\ db.status[c] = PAUSED
                /\ db.pause_reason[c] \in {DAILY_BUDGET_EXCEEDED}
        THEN (IF is_budget_available(db, c) THEN activate(db, c) ELSE db)
        ELSE db

\* Variant: any paused campaign is re-admitted, whatever its reason
check_budget_limits_ReadmitAnyPause(db, c) ==
    LET spend == get_current_spend(db, c)
    IN  IF ~spend.exists THEN db
        ELSE IF spend.daily_spend >= daily_budget[c]
        THEN (IF db.status[c] = ACTIVE
              THEN pause(db, c, DAILY_BUDGET_EXCEEDED) ELSE db)
        ELSE IF spend.monthly_spend >= monthly_budget[c]
        THEN (IF db.status[c] = ACTIVE
              THEN pause(db, c, MONTHLY_BUDGET_EXCEEDED) ELSE db)
        ELSE IF db.status[c] = PAUSED
        THEN (IF is_budget_available(db, c) THEN activate(db, c) ELSE db)
        ELSE db

\* Variant: an over-budget campaign is paused whatever its status
check_budget_limits_PauseAnyStatus(db, c) ==
    LET spend == get_current_spend(db, c)
    IN  IF ~spend.exists THEN db
        ELSE IF spend.daily_spend >= daily_budget[c]
        THEN pause(db, c, DAILY_BUDGET_EXCEEDED)
        ELSE IF spend.monthly_spend >= monthly_budget[c]
        THEN pause(db, c, MONTHLY_BUDGET_EXCEEDED)
        ELSE IF /\ db.status[c] = PAUSED
                /\ db.pause_reason[c] \in {DAILY_BUDGET_EXCEEDED,
                                            MONTHLY_BUDGET_EXCEEDED}
        THEN (IF is_budget_available(db, c) THEN activate(db, c) ELSE db)
        ELSE db

\* Variant: a campaign without a row today is re-admitted like one under
\* budget
check_budget_limits_NoRowReadmits(db, c) ==
    LET spend == get_current_spend(db, c)
        paused == /\ db.status[c] = PAUSED
                  /\ db.pause_reason[c] \in {DAILY_BUDGET_EXCEEDED,
                                              MONTHLY_BUDGET_EXCEEDED}
    IN  IF ~spend.exists
        THEN (IF paused /\ is_budget_available(db, c) THEN activate(db, c)
              ELSE db)
        ELSE IF spend.daily_spend >= daily_budget[c]
        THEN (IF db.status[c] = ACTIVE
              THEN pause(db, c, DAILY_BUDGET_EXCEEDED) ELSE db)
        ELSE IF spend.monthly_spend >= monthly_budget[c]
        THEN (IF db.status[c] = ACTIVE
              THEN pause(db, c, MONTHLY_BUDGET_EXCEEDED) ELSE db)
        ELSE IF paused
        THEN (IF is_budget_available(db, c) THEN activate(db, c) ELSE db)
        ELSE db

check_budget_limits(db, c) ==
    LET spend == get_current_spend(db, c)
    IN  IF ~spend.exists THEN db
        ELSE IF spend.daily_spend >= daily_budget[c]
        THEN (IF db.status[c] = ACTIVE
              THEN pause(db, c, DAILY_BUDGET_EXCEEDED) ELSE db)
        ELSE IF spend.monthly_spend >= monthly_budget[c]
        THEN (IF db.status[c] = ACTIVE
              THEN pause(db, c, MONTHLY_BUDGET_EXCEEDED) ELSE db)
        ELSE IF /\ db.status[c] = PAUSED
                /\ db.pause_reason[c] \in {DAILY_BUDGET_EXCEEDED,
                                            MONTHLY_BUDGET_EXCEEDED}
        THEN (IF is_budget_available(db, c) THEN activate(db, c) ELSE db)
        ELSE db

\* Spend.objects.get_or_create(campaign, date=today, defaults 0.00 / 0.00)
get_or_create_today(db, c) ==
    IF db.spends[c][today].exists THEN db.spends[c][today] ELSE SpendRow(0, 0)

\* Variant: the spend is added but the budget check is not run
track_spend_NoCheck(db, c, amount, mode) ==
    LET spend == get_or_create_today(db, c)
    IN  [db EXCEPT !.spends[c][today] = add_spend(spend, amount, mode)]

track_spend(db, c, amount, mode) ==
    LET spend == get_or_create_today(db, c)
        added == [db EXCEPT !.spends[c][today] = add_spend(spend, amount, mode)]
    IN  check_budget_limits(added, c)

\* Variant: every campaign counts as within its hours
check_dayparting_AlwaysTrue(c) == TRUE

check_dayparting(c) == c \in campaigns /\ is_within_dayparting_hours(c)

\* Variant: the spend is simulated whatever the status of the campaign
simulate_spend_IgnoresStatus(db, c, amount, mode) ==
    track_spend(db, c, amount, mode)

simulate_spend(db, c, amount, mode) ==
    IF db.status[c] # ACTIVE THEN db
    ELSE track_spend(db, c, amount, mode)

\* A service called with a campaign id.  Campaign.objects.get(id=...) comes
\* first: for an id without a row it raises Campaign.DoesNotExist, which the
\* service logs and raises again, nothing having been written.
track_spend_call(db, id, amount, mode) ==
    IF id \notin campaigns THEN [db |-> db, raised |-> TRUE]
    ELSE [db |-> track_spend(db, id, amount, mode), raised |-> FALSE]

\* Variant: the missing campaign is logged and the call returns normally
check_budget_limits_call_Swallows(db, id) ==
    IF id \notin campaigns THEN [db |-> db, raised |-> FALSE]
    ELSE [db |-> check_budget_limits(db, id), raised |-> FALSE]

check_budget_limits_call(db, id) ==
    IF id \notin campaigns THEN [db |-> db, raised |-> TRUE]
    ELSE [db |-> check_budget_limits(db, id), raised |-> FALSE]

simulate_spend_call(db, id, amount, mode) ==
    IF id \notin campaigns THEN [db |-> db, raised |-> TRUE]
    ELSE [db |-> simulate_spend(db, id, amount, mode), raised |-> FALSE]

\* Variant: only the rows dated today are zeroed
ZeroDaily_TodayOnly(sp) ==
    [c \in campaigns |-> [d \in Dates |->
        IF sp[c][d].exists /\ d = today
        THEN [sp[c][d] EXCEPT !.daily_spend = 0]
        ELSE sp[c][d]]]

\* Spend.objects.all().update(daily_spend=0): every row, every date
ZeroDaily(sp) ==
    [c \in campaigns |-> [d \in Dates |->
        IF sp[c][d].exists THEN [sp[c][d] EXCEPT !.daily_spend = 0]
        ELSE sp[c][d]]]

\* Variant: only the rows dated today are zeroed
ZeroMonthly_TodayOnly(sp) ==
    [c \in campaigns |-> [d \in Dates |->
        IF sp[c][d].exists /\ d = today
        THEN [sp[c][d] EXCEPT !.monthly_spend = 0]
        ELSE sp[c][d]]]

\* Spend.objects.all().update(monthly_spend=0): every row, every date
ZeroMonthly(sp) ==
    [c \in campaigns |-> [d \in Dates |->
        IF sp[c][d].exists THEN [sp[c][d] EXCEPT !.monthly_spend = 0]
        ELSE sp[c][d]]]

\* Variant: the selected campaigns are activated without the budget test
Readmit_Unconditional(db, reason) ==
    LET go == {c \in campaigns : /\ db.status[c] = PAUSED
                                 /\ db.pause_reason[c] = reason}
    IN  [db EXCEPT
           !.status = [c \in campaigns |-> IF c \in go THEN ACTIVE ELSE @[c]],
           !.pause_reason = [c \in campaigns |-> IF c \in go THEN None ELSE @[c]]]

\* Variant: every paused campaign is selected, whatever its reason
Readmit_AnyReason(db, reason) ==
    LET sel == {c \in campaigns : db.status[c] = PAUSED}
        go  == {c \in sel : is_budget_available(db, c)}
    IN  [db EXCEPT
           !.status = [c \in campaigns |-> IF c \in go THEN ACTIVE ELSE @[c]],
           !.pause_reason = [c \in campaigns |-> IF c \in go THEN None ELSE @[c]]]

\* for campaign in filter(status=PAUSED, pause_reason=reason):
\*     if campaign.is_budget_available(): campaign.activate()
\* The queryset is evaluated once, before the loop; the campaigns are
\* independent of each other, so the loop is a pointwise update.
Readmit(db, reason) ==
    LET sel == {c \in campaigns : /\ db.status[c] = PAUSED
                                  /\ db.pause_reason[c] = reason}
        go  == {c \in sel : is_budget_available(db, c)}
    IN  [db EXCEPT
           !.status = [c \in campaigns |-> IF c \in go THEN ACTIVE ELSE @[c]],
           !.pause_reason = [c \in campaigns |-> IF c \in go THEN None ELSE @[c]]]

\* Variant: the paused campaigns are re-admitted before the rows are zeroed
daily_reset_ReadmitBeforeZero(db) ==
    LET readmitted == Readmit(db, DAILY_BUDGET_EXCEEDED)
    IN  [readmitted EXCEPT !.spends = ZeroDaily(@)]

daily_reset(db) ==
    Readmit([db EXCEPT !.spends = ZeroDaily(@)], DAILY_BUDGET_EXCEEDED)

\* Variant: the day-of-month guard is missing
monthly_reset_NoGuard(db) ==
    Readmit([db EXCEPT !.spends = ZeroMonthly(@)], MONTHLY_BUDGET_EXCEEDED)

monthly_reset(db) ==
    IF DayOfMonth(today) # 1 THEN db
    ELSE Readmit([db EXCEPT !.spends = ZeroMonthly(@)], MONTHLY_BUDGET_EXCEEDED)

\* The campaigns of a set in queryset order (Meta.ordering; ids stand for it)
RECURSIVE InOrder(_)
InOrder(S) ==
    IF S = {} THEN <<>>
    ELSE LET m == CHOOSE x \in S : \A y \in S : x <= y
         IN  <<m>> \o InOrder(S \ {m})

\* First loop of periodic_budget_check over the snapshot
RECURSIVE SweepAccrue(_, _, _, _)
SweepAccrue(db, snapshot, amounts, mode) ==
    IF snapshot = <<>> THEN db
    ELSE LET c == Head(snapshot)
             next == IF ~check_dayparting(c)
                     THEN pause(db, c, OUTSIDE_DAYPARTING_HOURS)
                     ELSE simulate_spend(db, c, amounts[c], mode)
         IN  SweepAccrue(next, Tail(snapshot), amounts, mode)

\* Second loop of periodic_budget_check over the same snapshot
RECURSIVE SweepCheck(_, _)
SweepCheck(db, snapshot) ==
    IF snapshot = <<>> THEN db
    ELSE SweepCheck(check_budget_limits(db, Head(snapshot)), Tail(snapshot))

\* Variant: the snapshot holds the paused campaigns as well
periodic_budget_check_AllCampaigns(db, amounts, mode) ==
    LET active_campaigns == InOrder({c \in campaigns : db.status[c] # INACTIVE})
    IN  SweepCheck(SweepAccrue(db, active_campaigns, amounts, mode),
                   active_campaigns)

periodic_budget_check(db, amounts, mode) ==
    LET active_campaigns == InOrder({c \in campaigns : db.status[c] = ACTIVE})
    IN  SweepCheck(SweepAccrue(db, active_campaigns, amounts, mode),
                   active_campaigns)

\* ----------------------------------------------------------------- tasks
\* Variant: every campaign that is not ACTIVE is activated
reset_all_budgets_task_ActivatesAll(db) ==
    LET zeroed == [db EXCEPT !.spends = ZeroMonthly(ZeroDaily(@))]
    IN  [zeroed EXCEPT
           !.status = [c \in campaigns |-> ACTIVE],
           !.pause_reason = [c \in campaigns |-> None]]

\* Variant: only daily_spend is zeroed
reset_all_budgets_task_DailyOnly(db) ==
    LET zeroed == [db EXCEPT !.spends = ZeroDaily(@)]
        paused == {c \in campaigns : zeroed.status[c] = PAUSED}
    IN  [zeroed EXCEPT
           !.status = [c \in campaigns |-> IF c \in paused THEN ACTIVE ELSE @[c]],
           !.pause_reason = [c \in campaigns |-> IF c \in paused THEN None ELSE @[c]]]

reset_all_budgets_task(db) ==
    LET zeroed == [db EXCEPT !.spends = ZeroMonthly(ZeroDaily(@))]
        paused == {c \in campaigns : zeroed.status[c] = PAUSED}
    IN  [zeroed EXCEPT
           !.status = [c \in campaigns |-> IF c \in paused THEN ACTIVE ELSE @[c]],
           !.pause_reason = [c \in campaigns |-> IF c \in paused THEN None ELSE @[c]]]

\* ------------------------------------------------------- failing resets
\* Variant: the writes made before the exception stay
atomic_NoRollback(before, outcome) == outcome

\* with transaction.atomic(): an exception leaving the block rolls every
\* write of the block back and travels on to the caller
atomic(before, outcome) ==
    IF outcome.raised THEN [db |-> before, raised |-> TRUE] ELSE outcome

\* The re-admission loop over the campaigns of todo, one after the other
RECURSIVE ReadmitSeq(_, _)
ReadmitSeq(db, todo) ==
    IF todo = <<>> THEN db
    ELSE LET c == Head(todo)
         IN  ReadmitSeq(IF is_budget_available(db, c) THEN activate(db, c)
                        ELSE db,
                        Tail(todo))

\* The writes a reset has made when a statement of it raises: failAt = 0 is
\* the bulk UPDATE raising, failAt = k the handling of the k-th paused
\* campaign raising after the ones before it are done
PartialReset(db, zeroed, reason, failAt) ==
    LET paused == InOrder({c \in campaigns :
                      /\ db.status[c] = PAUSED
                      /\ db.pause_reason[c] = reason})
        done   == IF failAt - 1 <= Len(paused) THEN failAt - 1 ELSE Len(paused)
    IN  IF failAt = 0 THEN db
        ELSE ReadmitSeq([db EXCEPT !.spends = zeroed], SubSeq(paused, 1, done))

\* daily_reset with an exception in the statement failAt
daily_reset_failing(db, failAt) ==
    atomic(db, [db     |-> PartialReset(db, ZeroDaily(db.spends),
                                        DAILY_BUDGET_EXCEEDED, failAt),
                raised |-> TRUE])

\* monthly_reset with an exception in the statement failAt; off the first
\* of the month it has returned before any statement that can raise
monthly_reset_failing(db, failAt) ==
    IF DayOfMonth(today) # 1 THEN [db |-> db, raised |-> FALSE]
    ELSE atomic(db, [db     |-> PartialReset(db, ZeroMonthly(db.spends),
                                             MONTHLY_BUDGET_EXCEEDED, failAt),
                     raised |-> TRUE])

FailPoints == 0 .. Cardinality(CampaignIds)

\* ----------------------------------------------------- management commands
\* Variant: the day-of-month guard applies even with --force
reset_budgets_command_IgnoresForce(db, force, async_mode) ==
    IF DayOfMonth(today) # 1 THEN db
    ELSE IF async_mode THEN db
    ELSE reset_all_budgets_task(db)

\* reset_budgets: Command.handle.  With --async the task is only queued (it
\* runs later as reset_all_budgets_task); otherwise the command zeroes
\* every row and activates every paused campaign, as the task does.
reset_budgets_command(db, force, async_mode) ==
    IF ~force /\ DayOfMonth(today) # 1 THEN db
    ELSE IF async_mode THEN db
    ELSE reset_all_budgets_task(db)

\* ------------------------------------------------------------ transitions
\* Accrual is followed until a spend is MaxOverspend cents over the monthly
\* budget of its campaign (the column itself holds ten digits)
WithinCap(db) ==
    \A c \in campaigns : \A d \in Dates :
        db.spends[c][d].exists =>
            /\ db.spends[c][d].daily_spend <= monthly_budget[c] + MaxOverspend
            /\ db.spends[c][d].monthly_spend <= monthly_budget[c] + MaxOverspend

\* The rows behind a table a service leaves: the row it got or created for
\* a key it wrote, the rows that were there for the keys it updated
RowsBehind(sp) ==
    [c \in campaigns |-> [d \in Dates |->
        IF ~sp[c][d].exists THEN 0
        ELSE IF spend_rows[c][d] > 0 THEN spend_rows[c][d]
        ELSE 1]]

Apply(db) ==
    /\ status' = db.status
    /\ pause_reason' = db.pause_reason
    /\ spends' = db.spends
    /\ spend_rows' = RowsBehind(db.spends)
    /\ UNCHANGED <<campaigns, daily_budget, monthly_budget, schedules, today,
                   time>>
    /\ UNCHANGED <<sweep, workers, hist>>

\* No periodic_budget_check call is in progress
IdleSweep == [pc |-> "idle"]

\* The celery workers that run track_spend_task
Workers == {1, 2}

\* A worker between two tasks
IdleWorker == [pc |-> "idle"]

\* Nothing is in progress
NoHist == [outcome |-> "none"]

\* The sample schedules: campaign 1 runs on Mondays from 1 to 2
SampleSchedules ==
    {[id |-> 1, campaign |-> 1, day_of_week |-> 0, start_time |-> 1,
      end_time |-> 2, is_active |-> TRUE]}

\* A database holding the campaigns of ids, none of which has spent yet.
\* Campaign 1 has budgets of 2 and 3 cents, campaign 2 of 1 and 2 cents.
InitDB(ids) ==
    /\ campaigns = ids
    /\ status \in [ids -> {ACTIVE, INACTIVE}]
    /\ pause_reason = [c \in ids |-> None]
    /\ daily_budget = [c \in ids |-> IF c = 1 THEN 2 ELSE 1]
    /\ monthly_budget = [c \in ids |-> IF c = 1 THEN 3 ELSE 2]
    /\ spends = [c \in ids |-> [d \in Dates |-> NoRow]]
    /\ spend_rows = [c \in ids |-> [d \in Dates |-> 0]]
    /\ schedules = SampleSchedules
    /\ time = 0
    /\ sweep = IdleSweep
    /\ workers = [w \in Workers |-> IdleWorker]
    /\ hist = NoHist

\* Two campaigns, observed on one day of the calendar window
Init == InitDB({1, 2}) /\ today \in Dates

\* One campaign, followed from date 0 across the month boundary
InitDays == InitDB({1}) /\ today = 0

Activate(c) == Apply(activate(DB, c))

Pause(c, reason) == Apply(pause(DB, c, reason))

CheckBudgetLimits(c) == Apply(check_budget_limits_call(DB, c).db)

TrackSpend(c, amount) ==
    \E mode \in RoundingModes :
        LET db == track_spend_call(DB, c, amount, mode).db
        IN  WithinCap(db) /\ Apply(db)

SimulateSpend(c) ==
    \E amount \in SimAmounts, mode \in RoundingModes :
        LET db == simulate_spend_call(DB, c, amount, mode).db
        IN  WithinCap(db) /\ Apply(db)

PeriodicBudgetCheck ==
    \E amounts \in [campaigns -> SimAmounts], mode \in RoundingModes :
        LET db == periodic_budget_check(DB, amounts, mode)
        IN  WithinCap(db) /\ Apply(db)

DailyReset == Apply(daily_reset(DB))

MonthlyReset == Apply(monthly_reset(DB))

ResetAllBudgets == Apply(reset_all_budgets_task(DB))

DailyResetFails ==
    \E failAt \in FailPoints : Apply(daily_reset_failing(DB, failAt).db)

MonthlyResetFails ==
    \E failAt \in FailPoints : Apply(monthly_reset_failing(DB, failAt).db)

ResetBudgetsCommand ==
    \E force \in BOOLEAN, async_mode \in BOOLEAN :
        Apply(reset_budgets_command(DB, force, async_mode))

\* The clock moves on within the day
Tick ==
    /\ time < MaxTime
    /\ time' = time + 1
    /\ UNCHANGED <<campaigns, status, pause_reason, daily_budget, monthly_budget, spends,
                   spend_rows, schedules, today>>
    /\ UNCHANGED <<sweep, workers, hist>>

\* Midnight: the next calendar day begins
AdvanceDay ==
    /\ today < MaxDate
    /\ today' = today + 1
    /\ time' = 0
    /\ UNCHANGED <<campaigns, status, pause_reason, daily_budget, monthly_budget, spends,
                   spend_rows, schedules>>
    /\ UNCHANGED <<sweep, workers, hist>>

Next ==
    \/ \E c \in campaigns : Activate(c)
    \/ \E c \in campaigns, reason \in PauseReason : Pause(c, reason)
    \/ \E id \in CampaignIds : CheckBudgetLimits(id)
    \/ \E id \in CampaignIds, amount \in TrackAmounts : TrackSpend(id, amount)
    \/ \E id \in CampaignIds : SimulateSpend(id)
    \/ PeriodicBudgetCheck
    \/ DailyReset
    \/ MonthlyReset
    \/ ResetAllBudgets
    \/ DailyResetFails
    \/ MonthlyResetFails
    \/ ResetBudgetsCommand
    \/ Tick

Spec == Init /\ [][Next]_vars

NextDays == Next \/ AdvanceDay

SpecDays == InitDays /\ [][NextDays]_vars

\* ------------------------------------- periodic_budget_check, step by step
\* The pass reads the ACTIVE campaigns once and walks that list twice; the
\* admin site and other workers commit between any two of its statements.
MaxInterference == 1

EditBudgets == {1, 2}

\* The Campaign instance a query returns: the fields as they are now
Object(c) ==
    [id |-> c, status |-> status[c], pause_reason |-> pause_reason[c],
     daily_budget |-> daily_budget[c], monthly_budget |-> monthly_budget[c]]

\* Campaign.objects.filter(status=ACTIVE), evaluated
Snapshot ==
    LET ids == InOrder({c \in campaigns : status[c] = ACTIVE})
    IN  [k \in 1 .. Len(ids) |-> Object(ids[k])]

Put(f, c, v) == [x \in DOMAIN f \cup {c} |-> IF x = c THEN v ELSE f[x]]

\* Model.save() of a Campaign instance: an UPDATE of every field from the
\* instance, and an INSERT of the instance when no row has its id any more
SaveCampaign(obj) ==
    /\ campaigns' = campaigns \cup {obj.id}
    /\ status' = Put(status, obj.id, obj.status)
    /\ pause_reason' = Put(pause_reason, obj.id, obj.pause_reason)
    /\ daily_budget' = Put(daily_budget, obj.id, obj.daily_budget)
    /\ monthly_budget' = Put(monthly_budget, obj.id, obj.monthly_budget)
    /\ spends' = IF obj.id \in campaigns THEN spends
                 ELSE Put(spends, obj.id, [d \in Dates |-> NoRow])
    /\ spend_rows' = IF obj.id \in campaigns THEN spend_rows
                     ELSE Put(spend_rows, obj.id, [d \in Dates |-> 0])
    /\ UNCHANGED <<schedules, today, time>>

\* The writes of a service function that found its campaign
Write(db) ==
    /\ WithinCap(db)
    /\ status' = db.status
    /\ pause_reason' = db.pause_reason
    /\ spends' = db.spends
    /\ spend_rows' = RowsBehind(db.spends)
    /\ UNCHANGED <<campaigns, daily_budget, monthly_budget, schedules, today,
                   time>>

Unwritten ==
    UNCHANGED <<campaigns, status, pause_reason, daily_budget, monthly_budget,
                spends, spend_rows, schedules, today, time>>

SnapshotIds(snap) == {snap[k].id : k \in 1 .. Len(snap)}

\* The queryset is evaluated when the first loop starts
SweepStart ==
    /\ sweep.pc = "idle"
    /\ \A w \in Workers : workers[w].pc = "idle"
    /\ LET snap == Snapshot
           h == [outcome |-> "running", start |-> DB,
                 snapshot |-> SnapshotIds(snap), ops |-> <<>>,
                 dayparted |-> {}, accrued |-> {}, checked |-> {},
                 failed |-> 0]
       IN  IF Len(snap) = 0
           THEN /\ sweep' = IdleSweep
                /\ hist' = [h EXCEPT !.outcome = "completed"]
           ELSE /\ sweep' = [pc |-> "dayparting", active_campaigns |-> snap,
                             i |-> 1]
                /\ hist' = h
    /\ Unwritten
    /\ UNCHANGED workers

\* The first loop moves on to its next campaign, or hands over to the second
AfterAccrual(sw) ==
    IF sw.i < Len(sw.active_campaigns)
    THEN [sw EXCEPT !.pc = "dayparting", !.i = @ + 1]
    ELSE [sw EXCEPT !.pc = "check", !.i = 1]

\* First loop: check_dayparting(campaign.id), and on False
\* campaign.pause(OUTSIDE_DAYPARTING_HOURS) on the instance of the snapshot
SweepDayparting ==
    /\ sweep.pc = "dayparting"
    /\ LET campaign == sweep.active_campaigns[sweep.i]
       IN  /\ IF check_dayparting(campaign.id)
              THEN /\ sweep' = [sweep EXCEPT !.pc = "simulate"]
                   /\ Unwritten
              ELSE /\ SaveCampaign([campaign EXCEPT
                          !.status = PAUSED,
                          !.pause_reason = OUTSIDE_DAYPARTING_HOURS])
                   /\ sweep' = AfterAccrual(sweep)
           /\ hist' = [hist EXCEPT !.dayparted = @ \cup {campaign.id}]
    /\ UNCHANGED workers

\* The exception leaves both loops: the pass is over
Raise(c) ==
    /\ sweep' = IdleSweep
    /\ hist' = [hist EXCEPT !.outcome = "raised", !.failed = c]
    /\ Unwritten

\* First loop: simulate_spend(campaign.id)
SweepSimulate ==
    /\ sweep.pc = "simulate"
    /\ LET c == sweep.active_campaigns[sweep.i].id
       IN  IF c \notin campaigns THEN Raise(c)
           ELSE /\ \E amount \in SimAmounts, mode \in RoundingModes :
                       Write(simulate_spend(DB, c, amount, mode))
                /\ sweep' = AfterAccrual(sweep)
                /\ hist' = [hist EXCEPT !.accrued = @ \cup {c}]
    /\ UNCHANGED workers

\* Second loop: check_budget_limits(campaign.id)
SweepCheckStep ==
    /\ sweep.pc = "check"
    /\ LET c == sweep.active_campaigns[sweep.i].id
           last == sweep.i = Len(sweep.active_campaigns)
       IN  IF c \notin campaigns THEN Raise(c)
           ELSE /\ Write(check_budget_limits(DB, c))
                /\ sweep' = IF last THEN IdleSweep
                            ELSE [sweep EXCEPT !.i = @ + 1]
                /\ hist' = [hist EXCEPT
                       !.checked = @ \cup {c},
                       !.outcome = IF last THEN "completed" ELSE @]
    /\ UNCHANGED workers

\* What somebody else commits while the pass is between two statements
Interfere(op) ==
    /\ hist.outcome = "running" => Len(hist.ops) < MaxInterference
    /\ hist' = IF hist.outcome = "running"
               THEN [hist EXCEPT !.ops = Append(@, op)]
               ELSE NoHist
    /\ UNCHANGED <<sweep, workers>>

OperatorPause(c) ==
    /\ Write(pause(DB, c, MANUAL_PAUSE))
    /\ Interfere([op |-> "pause", id |-> c])

OperatorActivate(c) ==
    /\ Write(activate(DB, c))
    /\ Interfere([op |-> "activate", id |-> c])

\* The operator saves another daily budget in the admin site
OperatorEditBudget(c, value) ==
    /\ value # daily_budget[c]
    /\ daily_budget' = [daily_budget EXCEPT ![c] = value]
    /\ UNCHANGED <<campaigns, status, pause_reason, monthly_budget, spends,
                   spend_rows, schedules, today, time>>
    /\ Interfere([op |-> "edit", id |-> c, value |-> value])

Without(f, c) == [x \in DOMAIN f \ {c} |-> f[x]]

\* The operator deletes a campaign: its Spend rows and schedules go with it
DeleteCampaign(c) ==
    /\ campaigns' = campaigns \ {c}
    /\ status' = Without(status, c)
    /\ pause_reason' = Without(pause_reason, c)
    /\ daily_budget' = Without(daily_budget, c)
    /\ monthly_budget' = Without(monthly_budget, c)
    /\ spends' = Without(spends, c)
    /\ spend_rows' = Without(spend_rows, c)
    /\ schedules' = {s \in schedules : s.campaign # c}
    /\ UNCHANGED <<today, time>>
    /\ Interfere([op |-> "delete", id |-> c])

NextSweep ==
    \/ SweepStart
    \/ SweepDayparting
    \/ SweepSimulate
    \/ SweepCheckStep
    \/ \E c \in campaigns : OperatorPause(c)
    \/ \E c \in campaigns : OperatorActivate(c)
    \/ \E c \in campaigns, value \in EditBudgets : OperatorEditBudget(c, value)
    \/ \E c \in campaigns : DeleteCampaign(c)

SpecSweep == Init /\ [][NextSweep]_vars

\* ------------------------------------------- track_spend, statement by statement
\* Two workers run track_spend_task at once.  Each transaction reads what is
\* committed (READ COMMITTED) and its writes show to the others when it
\* commits; hist follows the operations that overlap.
InFlight == {w \in Workers : workers[w].pc # "idle"}

\* An operation joins the ones in progress, or is the first of them
Overlap(op, mode) ==
    IF hist.outcome = "racing"
    THEN /\ Len(hist.ops) < 1 + MaxInterference
         /\ mode = hist.mode
         /\ hist' = [hist EXCEPT !.ops = Append(@, op)]
    ELSE hist' = [outcome |-> "racing", start |-> DB, ops |-> <<op>>,
                  mode |-> mode]

\* track_spend up to the row it works on: Campaign.objects.get, then
\* Spend.objects.get_or_create for today.  The INSERT of a missing row
\* waits while another transaction holds an uncommitted row of that key.
TrackSpendBegin(w, c, amount) ==
    /\ workers[w].pc = "idle"
    /\ sweep.pc = "idle"
    /\ c \in campaigns
    /\ LET found == spends[c][today].exists
       IN  /\ ~found =>
                \A v \in InFlight : ~(workers[v].c = c /\ workers[v].created)
           /\ workers' = [workers EXCEPT ![w] =
                  [pc |-> "read", c |-> c, amount |-> amount,
                   created |-> ~found,
                   spend |-> IF found THEN spends[c][today]
                             ELSE SpendRow(0, 0)]]
    /\ \E mode \in RoundingModes :
           Overlap([op |-> "track_spend", id |-> c, amount |-> amount], mode)
    /\ Unwritten
    /\ UNCHANGED sweep

\* The rest of track_spend: spend.add_spend(amount) saves the fields of the
\* instance read before, check_budget_limits runs, the transaction commits
TrackSpendCommit(w) ==
    /\ workers[w].pc = "read"
    /\ LET c   == workers[w].c
           row == add_spend(workers[w].spend, workers[w].amount, hist.mode)
           db  == [DB EXCEPT !.spends[c][today] = row]
       IN  Write(check_budget_limits(db, c))
    /\ workers' = [workers EXCEPT ![w] = IdleWorker]
    /\ hist' = IF InFlight = {w} THEN [hist EXCEPT !.outcome = "settled"]
               ELSE hist
    /\ UNCHANGED sweep

\* A reset task commits while the workers are where they are
ResetDuring(op) ==
    /\ sweep.pc = "idle"
    /\ IF hist.outcome = "racing"
       THEN \E mode \in RoundingModes : Overlap([op |-> op], mode)
       ELSE hist' = NoHist
    /\ UNCHANGED <<sweep, workers>>

DailyResetDuring ==
    Write(daily_reset(DB)) /\ ResetDuring("daily_reset")

MonthlyResetDuring ==
    Write(monthly_reset(DB)) /\ ResetDuring("monthly_reset")

NextRace ==
    \/ \E w \in Workers, c \in campaigns, amount \in TrackAmounts :
           TrackSpendBegin(w, c, amount)
    \/ \E w \in Workers : TrackSpendCommit(w)
    \/ DailyResetDuring
    \/ MonthlyResetDuring

\* One campaign, its row shared by the two workers
InitRace == InitDB({1}) /\ today \in Dates

SpecRace == InitRace /\ [][NextRace]_vars

\* ------------------------------------ reset_all_budgets_task, step by step
\* The task runs outside any transaction: the bulk UPDATE and every
\* campaign.activate() commit on their own, and whoever reads the tables in
\* between sees what is committed so far.
ResetWorkers == {w \in Workers : workers[w].pc \in {"query", "activate"}}

\* Spend.objects.all().update(daily_spend=0, monthly_spend=0)
ResetAllZero(w) ==
    /\ InFlight = {}
    /\ Write([DB EXCEPT !.spends = ZeroMonthly(ZeroDaily(@))])
    /\ workers' = [workers EXCEPT ![w] = [pc |-> "query"]]
    /\ hist' = NoHist
    /\ UNCHANGED sweep

\* Campaign.objects.filter(status=PAUSED), evaluated when the loop starts
ResetAllQuery(w) ==
    /\ workers[w].pc = "query"
    /\ LET ids == InOrder({c \in campaigns : status[c] = PAUSED})
           paused_campaigns == [k \in 1 .. Len(ids) |-> Object(ids[k])]
       IN  workers' = [workers EXCEPT ![w] =
               IF Len(ids) = 0 THEN IdleWorker
               ELSE [pc |-> "activate",
                     paused_campaigns |-> paused_campaigns, i |-> 1]]
    /\ Unwritten
    /\ UNCHANGED <<sweep, hist>>

\* campaign.activate() on the next instance of the list
ResetAllActivate(w) ==
    /\ workers[w].pc = "activate"
    /\ LET campaign == workers[w].paused_campaigns[workers[w].i]
       IN  SaveCampaign([campaign EXCEPT !.status = ACTIVE,
                                         !.pause_reason = None])
    /\ workers' = [workers EXCEPT ![w] =
           IF workers[w].i = Len(workers[w].paused_campaigns) THEN IdleWorker
           ELSE [workers[w] EXCEPT !.i = @ + 1]]
    /\ UNCHANGED <<sweep, hist>>

\* Every Spend row of sp holds 0 in both fields
AllZero(sp) ==
    \A c \in DOMAIN sp, d \in Dates :
        sp[c][d].exists =>
            sp[c][d].daily_spend = 0 /\ sp[c][d].monthly_spend = 0

\* The campaigns the task has yet to activate
Pending(w) ==
    IF workers[w].pc = "query" THEN {c \in campaigns : status[c] = PAUSED}
    ELSE {workers[w].paused_campaigns[k].id :
              k \in workers[w].i .. Len(workers[w].paused_campaigns)}

\* A statement after the bulk UPDATE raises: the except clause logs and
\* re-raises, and what is committed stays
ResetAllFails(w) ==
    /\ w \in ResetWorkers
    /\ workers' = [workers EXCEPT ![w] = IdleWorker]
    /\ hist' = [outcome |-> "raised", zeroed |-> AllZero(spends),
                 stuck |-> {c \in Pending(w) \cap campaigns :
                                status[c] = PAUSED}]
    /\ Unwritten
    /\ UNCHANGED sweep

NextResetAll ==
    \/ \E c \in campaigns, amount \in TrackAmounts : TrackSpend(c, amount)
    \/ \E c \in campaigns : Pause(c, MANUAL_PAUSE)
    \/ \E w \in Workers : ResetAllZero(w)
    \/ \E w \in Workers : ResetAllQuery(w)
    \/ \E w \in Workers : ResetAllActivate(w)
    \/ \E w \in Workers : ResetAllFails(w)

SpecResetAll == Init /\ [][NextResetAll]_vars

\* ------------------------------------------- the dayparting schedules
\* The operator adds, changes and deletes DaypartingSchedule rows in the
\* admin site, whose form runs clean() before it saves.
ScheduleIds == {1, 2, 3}

ScheduleDays == {0, 1}

ScheduleTimes == {0, 1, 2}

\* What a submitted form holds; id 0 is the instance not saved yet
Forms(ids) ==
    [id : ids, campaign : campaigns, day_of_week : ScheduleDays,
     start_time : ScheduleTimes, end_time : ScheduleTimes,
     is_active : BOOLEAN]

\* Variant: the order of start and end is not checked
clean_NoOrderCheck(tbl, obj) ==
    LET overlapping == {s \in tbl : /\ s.campaign = obj.campaign
                                    /\ s.day_of_week = obj.day_of_week
                                    /\ s.is_active
                                    /\ s.id # obj.id}
    IN  ~\E schedule \in overlapping :
            /\ obj.start_time < schedule.end_time
            /\ obj.end_time > schedule.start_time

\* Variant: an overlap is seen only when the other window starts first
clean_OneSidedOverlap(tbl, obj) ==
    IF obj.start_time >= obj.end_time THEN FALSE
    ELSE LET overlapping == {s \in tbl : /\ s.campaign = obj.campaign
                                         /\ s.day_of_week = obj.day_of_week
                                         /\ s.is_active
                                         /\ s.id # obj.id}
         IN  ~\E schedule \in overlapping :
                 /\ obj.start_time < schedule.end_time
                 /\ obj.start_time > schedule.start_time

\* DaypartingSchedule.clean: TRUE when no ValidationError is raised
clean(tbl, obj) ==
    IF obj.start_time >= obj.end_time THEN FALSE
    ELSE LET overlapping == {s \in tbl : /\ s.campaign = obj.campaign
                                         /\ s.day_of_week = obj.day_of_week
                                         /\ s.is_active
                                         /\ s.id # obj.id}
         IN  ~\E schedule \in overlapping :
                 /\ obj.start_time < schedule.end_time
                 /\ obj.end_time > schedule.start_time

\* A write to the schedules table only
WriteSchedules(tbl) ==
    /\ schedules' = tbl
    /\ UNCHANGED <<campaigns, status, pause_reason, daily_budget,
                   monthly_budget, spends, spend_rows, today, time, sweep,
                   workers, hist>>

\* The add form: validated as an unsaved instance, then inserted
AddSchedule ==
    \E obj \in Forms({0}) :
        \E id \in ScheduleIds \ {s.id : s \in schedules} :
            WriteSchedules(IF clean(schedules, obj)
                           THEN schedules \cup {[obj EXCEPT !.id = id]}
                           ELSE schedules)

\* The change form of a stored row, (de)activation included
ChangeSchedule ==
    \E s \in schedules :
        \E obj \in Forms({s.id}) :
            WriteSchedules(IF clean(schedules, obj)
                           THEN (schedules \ {s}) \cup {obj}
                           ELSE schedules)

DeleteSchedule ==
    \E s \in schedules : WriteSchedules(schedules \ {s})

NextSchedules ==
    \/ AddSchedule
    \/ ChangeSchedule
    \/ DeleteSchedule
    \/ Tick
    \/ AdvanceDay

SpecSchedules == InitDays /\ [][NextSchedules]_vars

\* ------------------------------------------------ the Spend table, row by row
\* Spend.objects.get_or_create is a SELECT by (campaign, date) and, when it
\* finds nothing, an INSERT; unique_together = ['campaign', 'date'] is what
\* the database holds against the INSERT.

\* Variant: the table has no unique key
unique_together_NoKey(tbl, held, c, d) == "inserted"

\* The verdict of the unique key on an INSERT for (c, d): refused when a
\* committed row has the key, kept waiting while another transaction holds
\* an uncommitted row with the key
unique_together(tbl, held, c, d) ==
    IF tbl[c][d] > 0 THEN "IntegrityError"
    ELSE IF <<c, d>> \in held THEN "wait"
    ELSE "inserted"

\* get_or_create_spend run alone: the table it leaves, the row it returns
\* (the k-th row of its key) and whether it created it
get_or_create_spend(tbl, c, d) ==
    IF tbl[c][d] > 0
    THEN [spend_rows |-> tbl, spend |-> <<c, d, 1>>, created |-> FALSE]
    ELSE IF unique_together(tbl, {}, c, d) = "inserted"
    THEN [spend_rows |-> [tbl EXCEPT ![c][d] = @ + 1],
          spend |-> <<c, d, tbl[c][d] + 1>>, created |-> TRUE]
    ELSE [spend_rows |-> tbl, spend |-> <<c, d, 1>>, created |-> FALSE]

\* The keys of the rows other transactions have inserted and not committed
Held(w) ==
    {<<workers[v].c, workers[v].d>> :
        v \in {x \in Workers \ {w} : /\ workers[x].pc = "got"
                                     /\ workers[x].created}}

\* The worker has its row: track_spend goes on with it, get_or_create_spend
\* returns it
GotRow(w, op, c, d, created) ==
    IF op = "track_spend"
    THEN [pc |-> "got", op |-> op, c |-> c, d |-> d, created |-> created,
          spend |-> IF created THEN SpendRow(0, 0) ELSE spends[c][d]]
    ELSE IdleWorker

\* The SELECT of get_or_create, in track_spend (for today) or in
\* get_or_create_spend (for the date it is given)
GetOrCreateSelect(w, op, c, d) ==
    /\ workers[w].pc = "idle"
    /\ op = "track_spend" => d = today
    /\ workers' = [workers EXCEPT ![w] =
           IF spend_rows[c][d] > 0 THEN GotRow(w, op, c, d, FALSE)
           ELSE [pc |-> "insert", op |-> op, c |-> c, d |-> d]]
    /\ Unwritten
    /\ UNCHANGED <<sweep, hist>>

\* The INSERT of get_or_create.  Refused, get_or_create reads the row that
\* is there.  get_or_create_spend runs in autocommit; in track_spend the
\* new row is committed with the rest of the transaction.
GetOrCreateInsert(w) ==
    /\ workers[w].pc = "insert"
    /\ LET op == workers[w].op
           c  == workers[w].c
           d  == workers[w].d
           verdict == unique_together(spend_rows, Held(w), c, d)
       IN  /\ verdict # "wait"
           /\ IF verdict = "IntegrityError"
              THEN /\ workers' = [workers EXCEPT ![w] =
                          GotRow(w, op, c, d, FALSE)]
                   /\ Unwritten
              ELSE IF op = "track_spend"
              THEN /\ workers' = [workers EXCEPT ![w] =
                          GotRow(w, op, c, d, TRUE)]
                   /\ Unwritten
              ELSE /\ workers' = [workers EXCEPT ![w] = IdleWorker]
                   /\ spend_rows' = [spend_rows EXCEPT ![c][d] = @ + 1]
                   /\ spends' = [spends EXCEPT ![c][d] =
                          IF @.exists THEN @ ELSE SpendRow(0, 0)]
                   /\ UNCHANGED <<campaigns, status, pause_reason,
                                  daily_budget, monthly_budget, schedules,
                                  today, time>>
    /\ UNCHANGED <<sweep, hist>>

\* The rest of track_spend: add_spend on the row, check_budget_limits,
\* commit.  The amount of the call is drawn here, where it is first used.
TrackSpendFinish(w) ==
    /\ workers[w].pc = "got"
    /\ \E amount \in TrackAmounts, mode \in RoundingModes :
         LET c   == workers[w].c
             d   == workers[w].d
             row == add_spend(workers[w].spend, amount, mode)
             db  == check_budget_limits([DB EXCEPT !.spends[c][d] = row], c)
         IN  /\ WithinCap(db)
             /\ status' = db.status
             /\ pause_reason' = db.pause_reason
             /\ spends' = db.spends
             /\ spend_rows' = IF workers[w].created
                              THEN [spend_rows EXCEPT ![c][d] = @ + 1]
                              ELSE spend_rows
    /\ workers' = [workers EXCEPT ![w] = IdleWorker]
    /\ UNCHANGED <<campaigns, daily_budget, monthly_budget, schedules, today,
                   time, sweep, hist>>

NextRows ==
    \/ \E w \in Workers, c \in campaigns :
           GetOrCreateSelect(w, "track_spend", c, today)
    \/ \E w \in Workers, c \in campaigns, d \in Dates :
           GetOrCreateSelect(w, "get_or_create_spend", c, d)
    \/ \E w \in Workers : GetOrCreateInsert(w)
    \/ \E w \in Workers : TrackSpendFinish(w)
    \/ DailyReset
    \/ MonthlyReset
    \/ ResetAllBudgets

SpecRows == InitRace /\ [][NextRows]_vars

\* ------------------------------------------- the system left to itself
\* The services and tasks alone: no operator activates, pauses or edits a
\* campaign
NextAuto ==
    \/ \E id \in CampaignIds : CheckBudgetLimits(id)
    \/ \E id \in CampaignIds, amount \in TrackAmounts : TrackSpend(id, amount)
    \/ \E id \in CampaignIds : SimulateSpend(id)
    \/ PeriodicBudgetCheck
    \/ DailyReset
    \/ MonthlyReset
    \/ ResetAllBudgets
    \/ Tick
    \/ AdvanceDay

SpecAuto == InitDays /\ [][NextAuto]_vars

\* The same without callers of track_spend: spend accrues through
\* simulate_spend only
NextSimulated ==
    \/ \E id \in CampaignIds : CheckBudgetLimits(id)
    \/ \E id \in CampaignIds : SimulateSpend(id)
    \/ PeriodicBudgetCheck
    \/ DailyReset
    \/ MonthlyReset
    \/ ResetAllBudgets
    \/ Tick
    \/ AdvanceDay

SpecSimulated == InitDays /\ [][NextSimulated]_vars

TypeOK ==
    /\ campaigns \subseteq CampaignIds
    /\ status \in [campaigns -> Status]
    /\ pause_reason \in [campaigns -> PauseReason \cup {None}]
    /\ today \in Dates
    /\ time \in Times

\* ------------------------------------------------------------ properties
\* Today's Spend row of a campaign
TodayRow(c) == spends[c][today]

\* No row today, or both spends strictly under their budgets
UnderBudget(sp, c) ==
    \/ ~sp[c][today].exists
    \/ /\ sp[c][today].daily_spend < daily_budget[c]
       /\ sp[c][today].monthly_spend < monthly_budget[c]

BudgetReasons == {DAILY_BUDGET_EXCEEDED, MONTHLY_BUDGET_EXCEEDED}

\* A step of one of the automatic operations on the budgets (no operator
\* action, no unconditional reset)
BudgetOpStep ==
    \/ \E c \in campaigns : CheckBudgetLimits(c)
    \/ \E c \in campaigns, amount \in TrackAmounts : TrackSpend(c, amount)
    \/ \E c \in campaigns : SimulateSpend(c)
    \/ PeriodicBudgetCheck
    \/ DailyReset
    \/ MonthlyReset

\* C1: in every reachable state every campaign is PAUSED if and only if its
\* pause_reason is set.
C1_PausedIffReason ==
    \A c \in campaigns : (status[c] = PAUSED) <=> (pause_reason[c] # None)

C1_Witness ==
    \E c, e \in campaigns :
        /\ status[c] = PAUSED /\ pause_reason[c] = MONTHLY_BUDGET_EXCEEDED
        /\ status[e] = ACTIVE /\ TodayRow(e).exists

\* C2: check_budget_limits on an ACTIVE campaign whose row for today has
\* daily_spend >= daily_budget leaves it PAUSED with DAILY_BUDGET_EXCEEDED,
\* whatever monthly_spend is.
C2_DailyPause ==
    \A c \in campaigns :
        (/\ status[c] = ACTIVE
         /\ TodayRow(c).exists
         /\ TodayRow(c).daily_spend >= daily_budget[c])
        => LET after == check_budget_limits(DB, c)
           IN  /\ after.status[c] = PAUSED
               /\ after.pause_reason[c] = DAILY_BUDGET_EXCEEDED

\* An ACTIVE campaign at exact equality with the daily budget while the
\* monthly budget is reached as well
C2_Witness ==
    \E c \in campaigns :
        /\ status[c] = ACTIVE
        /\ TodayRow(c).exists
        /\ TodayRow(c).daily_spend = daily_budget[c]
        /\ TodayRow(c).monthly_spend >= monthly_budget[c]

\* C3: check_budget_limits on an ACTIVE campaign whose row for today has
\* daily_spend < daily_budget and monthly_spend >= monthly_budget leaves it
\* PAUSED with MONTHLY_BUDGET_EXCEEDED.
C3_MonthlyPause ==
    \A c \in campaigns :
        (/\ status[c] = ACTIVE
         /\ TodayRow(c).exists
         /\ TodayRow(c).daily_spend < daily_budget[c]
         /\ TodayRow(c).monthly_spend >= monthly_budget[c])
        => LET after == check_budget_limits(DB, c)
           IN  /\ after.status[c] = PAUSED
               /\ after.pause_reason[c] = MONTHLY_BUDGET_EXCEEDED

\* An ACTIVE campaign at exact equality with the monthly budget, its daily
\* spend under budget
C3_Witness ==
    \E c \in campaigns :
        /\ status[c] = ACTIVE
        /\ TodayRow(c).exists
        /\ TodayRow(c).daily_spend < daily_budget[c]
        /\ TodayRow(c).monthly_spend = monthly_budget[c]

\* C4: check_budget_limits on a campaign PAUSED for a budget reason, with a
\* row for today: if both spends are under budget it becomes ACTIVE with the
\* reason cleared, otherwise status and reason stay as they were.
C4_Readmission ==
    \A c \in campaigns :
        (/\ status[c] = PAUSED
         /\ pause_reason[c] \in BudgetReasons
         /\ TodayRow(c).exists)
        => LET after == check_budget_limits(DB, c)
           IN  IF /\ TodayRow(c).daily_spend < daily_budget[c]
                  /\ TodayRow(c).monthly_spend < monthly_budget[c]
               THEN after.status[c] = ACTIVE /\ after.pause_reason[c] = None
               ELSE /\ after.status[c] = PAUSED
                    /\ after.pause_reason[c] = pause_reason[c]

\* A campaign paused for the monthly budget whose row for today is under
\* both budgets, next to one paused for the daily budget that is still at
\* its daily budget
C4_Witness ==
    \E c, e \in campaigns :
        /\ status[c] = PAUSED /\ pause_reason[c] = MONTHLY_BUDGET_EXCEEDED
        /\ TodayRow(c).exists
        /\ TodayRow(c).daily_spend < daily_budget[c]
        /\ TodayRow(c).monthly_spend < monthly_budget[c]
        /\ status[e] = PAUSED /\ pause_reason[e] = DAILY_BUDGET_EXCEEDED
        /\ TodayRow(e).exists
        /\ TodayRow(e).daily_spend >= daily_budget[e]

\* C5: is_budget_available is true when there is no row for today, and
\* otherwise exactly when both spends are strictly under their budgets.
C5_BudgetAvailable ==
    \A c \in campaigns : is_budget_available(DB, c) <=> UnderBudget(spends, c)

\* A row at exact equality with the daily budget, monthly under budget
C5_Witness ==
    \E c \in campaigns :
        /\ TodayRow(c).exists
        /\ TodayRow(c).daily_spend = daily_budget[c]
        /\ TodayRow(c).monthly_spend < monthly_budget[c]
        /\ ~is_budget_available(DB, c)

\* C6: after track_spend on an ACTIVE campaign, the campaign is PAUSED for
\* the daily budget if today's daily_spend >= daily_budget, else PAUSED for
\* the monthly budget if monthly_spend >= monthly_budget, else still ACTIVE.
C6_AccrualChecks ==
    \A c \in campaigns : \A amount \in TrackAmounts, mode \in RoundingModes :
        status[c] = ACTIVE
        => LET after == track_spend(DB, c, amount, mode)
               row == after.spends[c][today]
           IN  /\ row.exists
               /\ IF row.daily_spend >= daily_budget[c]
                  THEN /\ after.status[c] = PAUSED
                       /\ after.pause_reason[c] = DAILY_BUDGET_EXCEEDED
                  ELSE IF row.monthly_spend >= monthly_budget[c]
                  THEN /\ after.status[c] = PAUSED
                       /\ after.pause_reason[c] = MONTHLY_BUDGET_EXCEEDED
                  ELSE after.status[c] = ACTIVE /\ after.pause_reason[c] = None

\* An ACTIVE campaign one cent under its daily budget: an accrual of one
\* cent brings it to exact equality
C6_Witness ==
    \E c \in campaigns :
        /\ status[c] = ACTIVE
        /\ TodayRow(c).exists
        /\ TodayRow(c).daily_spend = daily_budget[c] - 1
        /\ TodayRow(c).monthly_spend < monthly_budget[c] - 1

\* C7: a campaign PAUSED with MANUAL_PAUSE keeps that status and reason
\* across every step of track_spend, simulate_spend, check_budget_limits,
\* periodic_budget_check, daily_reset and monthly_reset.
C7_ManualPauseSticks ==
    [][\A c \in campaigns :
        (/\ status[c] = PAUSED
         /\ pause_reason[c] = MANUAL_PAUSE
         /\ ~(status'[c] = PAUSED /\ pause_reason'[c] = MANUAL_PAUSE))
        => ~BudgetOpStep]_vars

\* Manually paused while today's row is under both budgets
C7_Witness ==
    \E c \in campaigns :
        /\ status[c] = PAUSED /\ pause_reason[c] = MANUAL_PAUSE
        /\ TodayRow(c).exists
        /\ TodayRow(c).daily_spend < daily_budget[c]
        /\ TodayRow(c).monthly_spend < monthly_budget[c]

\* C8: no step of track_spend, simulate_spend, check_budget_limits,
\* periodic_budget_check, daily_reset, monthly_reset or reset_all_budgets
\* makes a campaign INACTIVE or changes the status of an INACTIVE campaign.
C8_InactiveIsManual ==
    [][\A c \in campaigns :
        ((status[c] = INACTIVE) # (status'[c] = INACTIVE))
        => ~(BudgetOpStep \/ ResetAllBudgets)]_vars

\* An INACTIVE campaign whose spend today has reached the daily budget
C8_Witness ==
    \E c \in campaigns :
        /\ status[c] = INACTIVE
        /\ TodayRow(c).exists
        /\ TodayRow(c).daily_spend >= daily_budget[c]

\* C9: daily_reset sets daily_spend to 0 on every Spend row of every date
\* and leaves every monthly_spend unchanged; the campaigns that were PAUSED
\* with DAILY_BUDGET_EXCEEDED and have budget available afterwards become
\* ACTIVE with the reason cleared, all others keep status and reason.
C9_DailyReset ==
    LET after == daily_reset(DB)
    IN  /\ \A c \in campaigns : \A d \in Dates :
            /\ after.spends[c][d].exists = spends[c][d].exists
            /\ spends[c][d].exists =>
                /\ after.spends[c][d].daily_spend = 0
                /\ after.spends[c][d].monthly_spend = spends[c][d].monthly_spend
        /\ \A c \in campaigns :
            IF /\ status[c] = PAUSED
               /\ pause_reason[c] = DAILY_BUDGET_EXCEEDED
               /\ UnderBudget(after.spends, c)
            THEN after.status[c] = ACTIVE /\ after.pause_reason[c] = None
            ELSE /\ after.status[c] = status[c]
                 /\ after.pause_reason[c] = pause_reason[c]

\* After a day change: a row of an earlier date and today's row both hold
\* daily spend, and the campaign is paused for the daily budget with its
\* monthly spend under budget
C9_Witness ==
    \E c \in campaigns : \E d \in Dates :
        /\ d < today
        /\ spends[c][d].exists
        /\ spends[c][d].daily_spend > 0
        /\ status[c] = PAUSED /\ pause_reason[c] = DAILY_BUDGET_EXCEEDED
        /\ TodayRow(c).exists
        /\ TodayRow(c).daily_spend >= daily_budget[c]
        /\ TodayRow(c).monthly_spend < monthly_budget[c]

\* C10: monthly_reset on a day that is not the first of the month changes
\* no Spend row and no campaign's status or pause_reason.
C10_MonthlyResetGuard ==
    DayOfMonth(today) # 1 =>
        LET after == monthly_reset(DB)
        IN  /\ after.spends = spends
            /\ after.status = status
            /\ after.pause_reason = pause_reason

\* Not the first of the month, with a campaign paused for the monthly
\* budget: the state a monthly reset would re-admit from on the first
C10_Witness ==
    /\ DayOfMonth(today) # 1
    /\ \E c \in campaigns :
        /\ status[c] = PAUSED /\ pause_reason[c] = MONTHLY_BUDGET_EXCEEDED
        /\ TodayRow(c).exists
        /\ TodayRow(c).monthly_spend >= monthly_budget[c]

\* C11: monthly_reset on the first day of the month sets monthly_spend to 0
\* on every Spend row of every date and leaves every daily_spend unchanged;
\* the campaigns that were PAUSED with MONTHLY_BUDGET_EXCEEDED and have
\* budget available afterwards become ACTIVE with the reason cleared, all
\* others keep status and reason.
C11_MonthlyReset ==
    DayOfMonth(today) = 1 =>
        LET after == monthly_reset(DB)
        IN  /\ \A c \in campaigns : \A d \in Dates :
                /\ after.spends[c][d].exists = spends[c][d].exists
                /\ spends[c][d].exists =>
                    /\ after.spends[c][d].monthly_spend = 0
                    /\ after.spends[c][d].daily_spend = spends[c][d].daily_spend
            /\ \A c \in campaigns :
                IF /\ status[c] = PAUSED
                   /\ pause_reason[c] = MONTHLY_BUDGET_EXCEEDED
                   /\ UnderBudget(after.spends, c)
                THEN after.status[c] = ACTIVE /\ after.pause_reason[c] = None
                ELSE /\ after.status[c] = status[c]
                     /\ after.pause_reason[c] = pause_reason[c]

\* The first of the month: a row of the day before still holds monthly
\* spend, and the campaign is paused for the monthly budget with today's
\* daily spend under budget
C11_Witness ==
    /\ DayOfMonth(today) = 1
    /\ \E c \in campaigns : \E d \in Dates :
        /\ d < today
        /\ spends[c][d].exists
        /\ spends[c][d].monthly_spend > 0
        /\ status[c] = PAUSED /\ pause_reason[c] = MONTHLY_BUDGET_EXCEEDED
        /\ TodayRow(c).exists
        /\ TodayRow(c).monthly_spend >= monthly_budget[c]
        /\ TodayRow(c).daily_spend < daily_budget[c]

\* C12: on the first day of a month, once daily_reset and monthly_reset
\* have both run, in either order and with nothing in between, every
\* campaign that was PAUSED with DAILY_BUDGET_EXCEEDED or
\* MONTHLY_BUDGET_EXCEEDED is ACTIVE with pause_reason cleared.
C12_ResetCycleReadmits ==
    DayOfMonth(today) = 1 =>
        \A c \in campaigns :
            (status[c] = PAUSED /\ pause_reason[c] \in BudgetReasons)
            => LET dm == monthly_reset(daily_reset(DB))
                   md == daily_reset(monthly_reset(DB))
               IN  /\ dm.status[c] = ACTIVE /\ dm.pause_reason[c] = None
                   /\ md.status[c] = ACTIVE /\ md.pause_reason[c] = None

C14_DaypartingPause ==
    \A c \in campaigns :
        (status[c] = ACTIVE /\ ~is_within_dayparting_hours(c))
        => \A amounts \in [campaigns -> SimAmounts], mode \in RoundingModes :
            LET after == periodic_budget_check(DB, amounts, mode)
            IN  /\ after.status[c] = PAUSED
                /\ after.pause_reason[c] = OUTSIDE_DAYPARTING_HOURS
                /\ after.spends[c] = spends[c]

\* An ACTIVE campaign outside its hours whose spend has reached the daily
\* budget
C14_Witness ==
    \E c \in campaigns :
        /\ status[c] = ACTIVE
        /\ ~is_within_dayparting_hours(c)
        /\ TodayRow(c).exists
        /\ TodayRow(c).daily_spend >= daily_budget[c]

C17_SweepFrame ==
    \A c \in campaigns :
        status[c] # ACTIVE
        => \A amounts \in [campaigns -> SimAmounts], mode \in RoundingModes :
            LET after == periodic_budget_check(DB, amounts, mode)
            IN  /\ after.status[c] = status[c]
                /\ after.pause_reason[c] = pause_reason[c]
                /\ after.spends[c] = spends[c]

\* A manually paused campaign outside its dayparting hours with spend under
\* budget, while another campaign is ACTIVE and is swept
C17_Witness ==
    \E c, e \in campaigns :
        /\ status[c] = PAUSED /\ pause_reason[c] = MANUAL_PAUSE
        /\ ~is_within_dayparting_hours(c)
        /\ TodayRow(c).exists
        /\ TodayRow(c).daily_spend < daily_budget[c]
        /\ status[e] = ACTIVE

\* C20: when a statement of daily_reset or of monthly_reset raises, be it
\* the bulk zeroing or the re-admission of some campaign after it, the
\* error reaches the caller and every Spend row, status and pause_reason is
\* as before the call.
C20_ResetAllOrNothing ==
    \A failAt \in FailPoints :
        /\ LET r == daily_reset_failing(DB, failAt)
           IN  r.raised /\ r.db = DB
        /\ DayOfMonth(today) = 1 =>
            LET r == monthly_reset_failing(DB, failAt)
            IN  r.raised /\ r.db = DB

\* The first of the month, with spend on the rows and campaigns that each
\* reset would re-admit before the statement that raises
C20_Witness ==
    /\ DayOfMonth(today) = 1
    /\ \E c, e \in campaigns :
        /\ status[c] = PAUSED /\ pause_reason[c] = DAILY_BUDGET_EXCEEDED
        /\ TodayRow(c).exists /\ TodayRow(c).daily_spend > 0
        /\ daily_reset(DB).status[c] = ACTIVE
        /\ status[e] = PAUSED /\ pause_reason[e] = MONTHLY_BUDGET_EXCEEDED
        /\ TodayRow(e).exists /\ TodayRow(e).monthly_spend > 0
        /\ monthly_reset(DB).status[e] = ACTIVE

\* C16: when the handling of one campaign raises in a periodic_budget_check
\* pass, every other campaign of the snapshot is still evaluated in that
\* pass: its dayparting is checked and its budget check runs.
C16_SweepContinues ==
    hist.outcome \in {"completed", "raised"} =>
        \A c \in hist.snapshot \ {hist.failed} :
            c \in hist.dayparted /\ c \in hist.checked

\* What the campaign ends as when the pass and the operator's action run
\* one after the other, in either order, whatever the increments drawn
SerialOutcomes(op) ==
    LET c == op.id
        act(db) == IF op.op = "pause" THEN pause(db, c, MANUAL_PAUSE)
                   ELSE activate(db, c)
        ends == UNION {{periodic_budget_check(act(hist.start), amounts, mode),
                        act(periodic_budget_check(hist.start, amounts, mode))} :
                       amounts \in [campaigns -> SimAmounts],
                       mode \in RoundingModes}
    IN  {<<db.status[c], db.pause_reason[c]>> : db \in ends}

\* C19: when a periodic_budget_check pass completes during which an
\* operator has paused, activated or re-budgeted one campaign of its
\* snapshot, the campaign's status and pause_reason are those of the pass
\* and the operator's action run one after the other in some order, and
\* its daily budget is the one the operator saved.
C19_Serialized ==
    (/\ hist.outcome = "completed"
     /\ Len(hist.ops) = 1
     /\ hist.ops[1].id \in hist.snapshot)
    => LET op == hist.ops[1]
       IN  /\ op.op \in {"pause", "activate"} =>
                <<status[op.id], pause_reason[op.id]>> \in SerialOutcomes(op)
           /\ op.op = "edit" => daily_budget[op.id] = op.value

\* One of the overlapping operations, run alone on db
RunAlone(db, op) ==
    CASE op.op = "track_spend" ->
             track_spend(db, op.id, op.amount, hist.mode)
      [] op.op = "daily_reset" -> daily_reset(db)
      [] op.op = "monthly_reset" -> monthly_reset(db)

\* C18: when two track_spend calls have overlapped, or a track_spend and a
\* daily_reset or monthly_reset, and all of them are over, the Spend rows
\* are those that running the two one after the other, in one order or the
\* other, leaves.
C18_AccrualSerializable ==
    (hist.outcome = "settled" /\ Len(hist.ops) = 2)
    => LET a == hist.ops[1]
           b == hist.ops[2]
       IN  \/ spends = RunAlone(RunAlone(hist.start, a), b).spends
           \/ spends = RunAlone(RunAlone(hist.start, b), a).spends

\* C21: after reset_all_budgets every Spend row has daily_spend 0 and
\* monthly_spend 0, every campaign that was PAUSED, for whatever reason, is
\* ACTIVE with the reason cleared, and the campaigns that were ACTIVE or
\* INACTIVE keep their status; the synchronous forced command does the same.
C21_ResetAll ==
    \A after \in {reset_all_budgets_task(DB),
                  reset_budgets_command(DB, TRUE, FALSE)} :
        /\ \A c \in campaigns : \A d \in Dates :
            /\ after.spends[c][d].exists = spends[c][d].exists
            /\ spends[c][d].exists =>
                /\ after.spends[c][d].daily_spend = 0
                /\ after.spends[c][d].monthly_spend = 0
        /\ \A c \in campaigns :
            /\ after.status[c] # PAUSED
            /\ IF status[c] = PAUSED
               THEN after.status[c] = ACTIVE /\ after.pause_reason[c] = None
               ELSE /\ after.status[c] = status[c]
                    /\ after.pause_reason[c] = pause_reason[c]

\* A campaign outside its hours is paused for them with monthly spend on its
\* row, next to a campaign that is INACTIVE
C21_Witness ==
    \E c, e \in campaigns :
        /\ status[c] = PAUSED
        /\ pause_reason[c] = OUTSIDE_DAYPARTING_HOURS
        /\ TodayRow(c).exists
        /\ TodayRow(c).monthly_spend > 0
        /\ status[e] = INACTIVE

\* C23: track_spend(campaign, amount) leaves today's row of the campaign
\* existing with both fields greater by exactly amount than before (than 0
\* if the row was absent), whatever the budgets, and leaves the rows of
\* other campaigns and other dates unchanged.
C23_TrackSpendExact ==
    \A c \in campaigns, amount \in TrackAmounts \cup SimAmounts,
       mode \in RoundingModes :
        LET after == track_spend(DB, c, amount, mode)
            old   == get_or_create_today(DB, c)
            row   == after.spends[c][today]
        IN  /\ row.exists
            /\ row.daily_spend * 10 = old.daily_spend * 10 + amount
            /\ row.monthly_spend * 10 = old.monthly_spend * 10 + amount
            /\ \A e \in campaigns, d \in Dates :
                (e # c \/ d # today) => after.spends[e][d] = spends[e][d]

\* C24: from the same state, accruing a then b, accruing b then a and
\* accruing a + b in one call leave the same daily_spend and monthly_spend
\* on today's row.
C24_AccrualAdditive ==
    \A c \in campaigns, a \in TrackAmounts, b \in TrackAmounts,
       mode \in RoundingModes :
        LET ab  == track_spend(track_spend(DB, c, a, mode), c, b, mode)
            ba  == track_spend(track_spend(DB, c, b, mode), c, a, mode)
            sum == track_spend(DB, c, a + b, mode)
        IN  /\ ab.spends[c][today] = ba.spends[c][today]
            /\ ab.spends[c][today] = sum.spends[c][today]

\* C25: track_spend with an amount that is zero or negative is rejected:
\* Spend rows, status and pause_reason are as before the call.
C25_NonPositiveRejected ==
    \A c \in campaigns, amount \in NonPositiveAmounts, mode \in RoundingModes :
        track_spend(DB, c, amount, mode) = DB

\* C27: check_budget_limits on a campaign that is INACTIVE or PAUSED, for
\* whatever reason, and whose spend today is at or over the daily or the
\* monthly budget leaves status and pause_reason as they were.
C27_PauseOnlyFromActive ==
    \A c \in campaigns :
        (/\ status[c] # ACTIVE
         /\ TodayRow(c).exists
         /\ \/ TodayRow(c).daily_spend >= daily_budget[c]
            \/ TodayRow(c).monthly_spend >= monthly_budget[c])
        => LET after == check_budget_limits(DB, c)
           IN  /\ after.status[c] = status[c]
               /\ after.pause_reason[c] = pause_reason[c]

\* A manually paused campaign over its daily budget and an INACTIVE one
\* over its monthly budget only
C27_Witness ==
    \E c, e \in campaigns :
        /\ status[c] = PAUSED /\ pause_reason[c] = MANUAL_PAUSE
        /\ TodayRow(c).exists
        /\ TodayRow(c).daily_spend >= daily_budget[c]
        /\ status[e] = INACTIVE
        /\ TodayRow(e).exists
        /\ TodayRow(e).daily_spend < daily_budget[e]
        /\ TodayRow(e).monthly_spend >= monthly_budget[e]

\* No Spend row has a field lower after the step than before it
NoDecrease ==
    \A c \in campaigns \cap campaigns', d \in Dates :
        (spends[c][d].exists /\ spends'[c][d].exists) =>
            /\ spends'[c][d].daily_spend >= spends[c][d].daily_spend
            /\ spends'[c][d].monthly_spend >= spends[c][d].monthly_spend

\* C26: every Spend row has daily_spend >= 0 and monthly_spend >= 0 in
\* every reachable state, and a step that is not a reset lowers neither
\* field of any row.
C26_SpendMonotone ==
    /\ [](\A c \in campaigns, d \in Dates :
            spends[c][d].exists =>
                spends[c][d].daily_spend >= 0 /\ spends[c][d].monthly_spend >= 0)
    /\ [][(\E w \in Workers : TrackSpendCommit(w)) => NoDecrease]_vars

\* C22: nobody reading the tables while reset_all_budgets runs sees, and no
\* failure of it part-way leaves, the Spend rows zeroed while a campaign
\* that the run reactivates is still PAUSED.
C22_ResetAllView ==
    /\ \A w \in ResetWorkers :
        AllZero(spends) => \A c \in Pending(w) \cap campaigns : status[c] # PAUSED
    /\ hist.outcome = "raised" => (hist.zeroed => hist.stuck = {})

\* The active schedules of a campaign for today's weekday
ActiveToday(c) ==
    {s \in schedules : /\ s.campaign = c
                       /\ s.is_active
                       /\ s.day_of_week = Weekday(today)}

\* C28: is_within_dayparting_hours is true when the campaign has no active
\* schedule for today's weekday, be it that it has none at all, only
\* inactive ones or only ones for other weekdays; otherwise it is true
\* exactly when the time of day lies in start..end, both ends included, of
\* at least one active schedule of that weekday.
C28_WithinHours ==
    \A c \in campaigns :
        /\ ActiveToday(c) = {} => is_within_dayparting_hours(c)
        /\ ActiveToday(c) # {} =>
            (is_within_dayparting_hours(c)
                <=> \E s \in ActiveToday(c) :
                        time \in s.start_time .. s.end_time)

\* The time of day is the end of the only window that holds it, while an
\* inactive schedule and one of another weekday are stored as well
C28_Witness ==
    \E c \in campaigns :
        /\ \E s \in ActiveToday(c) : time = s.end_time
        /\ \A s \in ActiveToday(c) : time >= s.end_time
        /\ \E s \in schedules : s.campaign = c /\ ~s.is_active
        /\ \E s \in schedules :
            s.campaign = c /\ s.day_of_week # Weekday(today)

\* Two windows share more than an end point (the half-open test)
Overlaps(s, t) == s.start_time < t.end_time /\ s.end_time > t.start_time

\* C29: whatever schedules have been created, edited, activated and
\* deactivated through validation, no two active rows of one campaign and
\* day_of_week overlap, and a write that would make an active row overlap
\* another active row is refused.
C29_NoOverlap ==
    /\ \A s, t \in schedules :
        (/\ s.id # t.id
         /\ s.campaign = t.campaign
         /\ s.day_of_week = t.day_of_week
         /\ s.is_active /\ t.is_active)
        => ~Overlaps(s, t)
    /\ \A obj \in Forms({0} \cup ScheduleIds) :
        (/\ obj.is_active
         /\ \E t \in schedules :
              /\ t.id # obj.id
              /\ t.campaign = obj.campaign
              /\ t.day_of_week = obj.day_of_week
              /\ t.is_active
              /\ Overlaps(obj, t))
        => ~clean(schedules, obj)

\* Two active windows of one campaign and day that meet at one point, and a
\* third, inactive row across both
C29_Witness ==
    \E s, t, u \in schedules :
        /\ s.campaign = t.campaign /\ s.day_of_week = t.day_of_week
        /\ s.is_active /\ t.is_active
        /\ s.end_time = t.start_time
        /\ u.campaign = s.campaign /\ u.day_of_week = s.day_of_week
        /\ ~u.is_active
        /\ Overlaps(u, s) /\ Overlaps(u, t)

\* C30: a schedule whose start_time is not before its end_time is refused
\* by validation, and every stored schedule has start_time < end_time.
C30_StartBeforeEnd ==
    /\ \A s \in schedules : s.start_time < s.end_time
    /\ \A obj \in Forms({0} \cup ScheduleIds) :
        obj.start_time >= obj.end_time => ~clean(schedules, obj)

\* The operator has stored schedules beside the sample one
C30_Witness ==
    \E s \in schedules : s \notin SampleSchedules

\* C31: daily_reset is idempotent: run twice in a row it leaves the Spend
\* rows, the statuses and the pause reasons that one run leaves.
C31_DailyResetIdempotent ==
    LET once == daily_reset(DB)
    IN  daily_reset(once) = once

\* A campaign paused for its daily budget, with daily spend on today's row,
\* that one run of daily_reset zeroes and re-admits
C31_Witness ==
    \E c \in campaigns :
        /\ status[c] = PAUSED
        /\ pause_reason[c] = DAILY_BUDGET_EXCEEDED
        /\ TodayRow(c).exists
        /\ TodayRow(c).daily_spend > 0
        /\ daily_reset(DB).status[c] = ACTIVE
        /\ daily_reset(DB).spends[c][today].daily_spend = 0

\* C32: for a campaign id without a Campaign row, track_spend,
\* check_budget_limits and simulate_spend raise the not-found error to the
\* caller and change nothing, and check_dayparting returns false instead of
\* raising.
C32_NotFound ==
    \A id \in CampaignIds \ campaigns :
        /\ \A amount \in TrackAmounts, mode \in RoundingModes :
               track_spend_call(DB, id, amount, mode) =
                   [db |-> DB, raised |-> TRUE]
        /\ check_budget_limits_call(DB, id) = [db |-> DB, raised |-> TRUE]
        /\ \A amount \in SimAmounts, mode \in RoundingModes :
               simulate_spend_call(DB, id, amount, mode) =
                   [db |-> DB, raised |-> TRUE]
        /\ check_dayparting(id) = FALSE

\* An id without a Campaign row is passed to the services while another
\* campaign has spend recorded today
C32_Witness ==
    /\ \E id \in CampaignIds \ campaigns :
           /\ track_spend_call(DB, id, 10, "half_up").raised
           /\ check_budget_limits_call(DB, id).raised
           /\ ~check_dayparting(id)
    /\ \E c \in campaigns : TodayRow(c).exists /\ TodayRow(c).daily_spend > 0

\* C36: check_budget_limits changes nothing for a campaign that has no Spend
\* row dated today, also when the campaign is PAUSED with a budget reason
\* and is_budget_available is true for it.
C36_NoRowNoOp ==
    \A c \in campaigns :
        ~TodayRow(c).exists => check_budget_limits_call(DB, c).db = DB

\* A campaign paused for a budget on an earlier day, with no row today
C36_Witness ==
    \E c \in campaigns :
        /\ ~TodayRow(c).exists
        /\ status[c] = PAUSED
        /\ pause_reason[c] \in BudgetReasons
        /\ is_budget_available(DB, c)
        /\ \E d \in Dates : d < today /\ spends[c][d].exists

\* Rows an earlier date can hold: none, nothing spent, budgets reached
AltRows(c) ==
    {NoRow} \cup {SpendRow(d, m) : d \in {0, daily_budget[c]},
                                   m \in {0, monthly_budget[c]}}

\* The Spend tables that differ from the current one only in rows of dates
\* before today
EarlierVariants ==
    {[c \in campaigns |-> [d \in Dates |->
          IF d < today THEN alt[c][d] ELSE spends[c][d]]] :
        alt \in [campaigns -> [Dates -> UNION {AltRows(c) : c \in campaigns}]]}

\* Two outcomes admit the same campaigns
SameAdmission(a, b) ==
    a.status = b.status /\ a.pause_reason = b.pause_reason

\* C37: the budget decisions depend only on today's Spend row: in two states
\* that differ only in Spend rows of earlier dates is_budget_available is
\* the same, and check_budget_limits, track_spend and daily_reset leave the
\* same status and pause_reason.
C37_TodayRowOnly ==
    \A sp \in EarlierVariants :
        LET other == [DB EXCEPT !.spends = sp]
        IN  /\ SameAdmission(daily_reset(other), daily_reset(DB))
            /\ \A c \in campaigns :
                /\ is_budget_available(other, c) = is_budget_available(DB, c)
                /\ SameAdmission(check_budget_limits(other, c),
                                 check_budget_limits(DB, c))
                /\ \A amount \in TrackAmounts, mode \in RoundingModes :
                       SameAdmission(track_spend(other, c, amount, mode),
                                     track_spend(DB, c, amount, mode))

\* An ACTIVE campaign under budget today whose row of an earlier date has
\* reached the daily budget
C37_Witness ==
    \E c \in campaigns :
        /\ status[c] = ACTIVE
        /\ TodayRow(c).exists
        /\ is_budget_available(DB, c)
        /\ \E d \in Dates : /\ d < today
                            /\ spends[c][d].exists
                            /\ spends[c][d].daily_spend >= daily_budget[c]

\* The campaign is PAUSED for being outside its hours
DaypartingPaused(db, c) ==
    db.status[c] = PAUSED /\ db.pause_reason[c] = OUTSIDE_DAYPARTING_HOURS

\* C35: a campaign PAUSED with OUTSIDE_DAYPARTING_HOURS stays PAUSED with
\* that reason under periodic_budget_check, check_budget_limits,
\* track_spend, simulate_spend, daily_reset and monthly_reset, also when the
\* time is back inside a window; activate and reset_all_budgets make it
\* ACTIVE.
C35_DaypartingPauseSticks ==
    \A c \in campaigns :
        DaypartingPaused(DB, c) =>
            /\ \A amounts \in [campaigns -> SimAmounts], mode \in RoundingModes :
                   DaypartingPaused(periodic_budget_check(DB, amounts, mode), c)
            /\ DaypartingPaused(check_budget_limits_call(DB, c).db, c)
            /\ \A amount \in TrackAmounts, mode \in RoundingModes :
                   DaypartingPaused(track_spend_call(DB, c, amount, mode).db, c)
            /\ \A amount \in SimAmounts, mode \in RoundingModes :
                   DaypartingPaused(simulate_spend_call(DB, c, amount, mode).db, c)
            /\ DaypartingPaused(daily_reset(DB), c)
            /\ DaypartingPaused(monthly_reset(DB), c)
            /\ activate(DB, c).status[c] = ACTIVE
            /\ reset_all_budgets_task(DB).status[c] = ACTIVE

\* A campaign paused for being outside its hours, under budget, at a time
\* that is inside its window again
C35_Witness ==
    \E c \in campaigns :
        /\ DaypartingPaused(DB, c)
        /\ is_within_dayparting_hours(c)
        /\ TodayRow(c).exists
        /\ is_budget_available(DB, c)

\* C38: track_spend on a PAUSED (whatever the reason) or INACTIVE campaign
\* still increases daily_spend and monthly_spend of today's row by amount,
\* and for a campaign INACTIVE or PAUSED with MANUAL_PAUSE or
\* OUTSIDE_DAYPARTING_HOURS it leaves status and pause_reason unchanged.
C38_AccrualNotGated ==
    \A c \in campaigns :
        status[c] # ACTIVE =>
            \A amount \in TrackAmounts, mode \in RoundingModes :
                LET after == track_spend_call(DB, c, amount, mode).db
                    old   == get_or_create_today(DB, c)
                    row   == after.spends[c][today]
                IN  /\ row.exists
                    /\ row.daily_spend * 10 = old.daily_spend * 10 + amount
                    /\ row.monthly_spend * 10 = old.monthly_spend * 10 + amount
                    /\ (\/ status[c] = INACTIVE
                        \/ pause_reason[c] \in {MANUAL_PAUSE,
                                                OUTSIDE_DAYPARTING_HOURS})
                       => /\ after.status[c] = status[c]
                          /\ after.pause_reason[c] = pause_reason[c]

C34_ActiveUnderBudget ==
    \A c \in campaigns : status[c] = ACTIVE => UnderBudget(spends, c)

\* An ACTIVE campaign whose row of today was zeroed by a daily reset and
\* still carries monthly spend
C34_Witness ==
    \E c \in campaigns :
        /\ status[c] = ACTIVE
        /\ TodayRow(c).exists
        /\ TodayRow(c).daily_spend = 0
        /\ TodayRow(c).monthly_spend > 0

\* The largest increment simulate_spend draws (mills)
MaxIncrement == CHOOSE m \in SimAmounts : \A a \in SimAmounts : a <= m

\* Today's spends are less than one increment over the budgets
WithinOneIncrement(db) ==
    \A c \in campaigns :
        db.spends[c][today].exists =>
            /\ db.spends[c][today].daily_spend * 10
                 < daily_budget[c] * 10 + MaxIncrement
            /\ db.spends[c][today].monthly_spend * 10
                 < monthly_budget[c] * 10 + MaxIncrement

\* C40: when spend accrues only through simulate_spend (directly or in
\* periodic_budget_check) in increments of at most M, operations do not
\* interleave and campaigns are activated only by the resets, then from a
\* state with every ACTIVE campaign under budget every campaign always has
\* today's daily_spend < daily_budget + M and monthly_spend <
\* monthly_budget + M.
C40_OvershootBounded ==
    /\ WithinOneIncrement(DB)
    /\ \A c \in campaigns, amount \in SimAmounts, mode \in RoundingModes :
           WithinOneIncrement(simulate_spend_call(DB, c, amount, mode).db)
    /\ \A amounts \in [campaigns -> SimAmounts], mode \in RoundingModes :
           WithinOneIncrement(periodic_budget_check(DB, amounts, mode))

\* A campaign paused with today's daily spend over its daily budget
C40_Witness ==
    \E c \in campaigns :
        /\ status[c] = PAUSED
        /\ pause_reason[c] = DAILY_BUDGET_EXCEEDED
        /\ TodayRow(c).exists
        /\ TodayRow(c).daily_spend > daily_budget[c]

\* No step takes a row out of the Spend table
NoRowDeleted ==
    \A c \in campaigns, d \in Dates : spend_rows'[c][d] >= spend_rows[c][d]

\* C33: in every reachable state the Spend table holds at most one row per
\* (campaign, date), also when track_spend and get_or_create_spend run
\* concurrently for the same key; get_or_create_spend called again for a
\* key returns the row of the first call; no operation deletes a Spend row.
C33_OneRowPerKey ==
    /\ [](\A c \in campaigns, d \in Dates :
            /\ spend_rows[c][d] <= 1
            /\ spends[c][d].exists <=> spend_rows[c][d] = 1
            /\ LET first == get_or_create_spend(spend_rows, c, d)
                   again == get_or_create_spend(first.spend_rows, c, d)
               IN  /\ again.spend = first.spend
                   /\ ~again.created
                   /\ again.spend_rows = first.spend_rows)
    /\ [][NoRowDeleted]_vars

\* Two calls are after the same missing row: one has inserted it and not
\* yet committed, the other is about to insert
C33_Witness ==
    \E w \in Workers, v \in Workers :
        /\ workers[w].pc = "got"
        /\ workers[w].created
        /\ workers[v].pc = "insert"
        /\ workers[v].c = workers[w].c
        /\ workers[v].d = workers[w].d

====
